---- MODULE Spec2Model ----
(***************************************************************************)
(* XmlMaterialProfile (plugins/XmlMaterialProfile/XmlMaterialProfile.py):  *)
(* material containers that share a GUID, their propagation rules and      *)
(* their XML serialisation.                                                *)
(*                                                                         *)
(* A Python value is a pair <<type, text>>:  <<"str", "210">> is the       *)
(* string "210", <<"int", "210">> the number 210 and None the value None.  *)
(* An XML document is a record of element texts; the text of an element is *)
(* a plain string, "" for an empty element.                                *)
(***************************************************************************)
EXTENDS Integers, Sequences, FiniteSets, TLC

VARIABLES containers, registry, last, steps

vars == <<containers, registry, last, steps>>

(* ------------------------------ bounds --------------------------------- *)

\* number of operations in one run
MaxSteps == 4

\* number of container objects alive at once
MaxContainers == 6

(* --------------------------- Python values ----------------------------- *)

None == <<"none", "">>

S(s) == <<"str", s>>

\* truth value of a Python value in `if x:`
Truthy(v) == v /= None /\ v /= S("")

\* str(value)
Str(v) == IF v = None THEN "None" ELSE v[2]

\* Element.text of a parsed element: an empty element has text None
ParsedText(t) == IF t = "" THEN None ELSE S(t)

\* the text of an element written from builder.data(value) for a string or None
WrittenText(v) == IF v = None THEN "" ELSE v[2]

\* str.replace(" ", "_") on the hotend ids the documents use
ReplaceSpaces(s) ==
    CASE s = "0.4 mm" -> "0.4_mm"
      [] s = "0.6 mm" -> "0.6_mm"
      [] OTHER -> s

(* ------------------------------ dicts ---------------------------------- *)

EmptyDict == <<>>

Put(d, k, v) == [x \in (DOMAIN d) \cup {k} |-> IF x = k THEN v ELSE d[x]]

Get(d, k, default) == IF k \in DOMAIN d THEN d[k] ELSE default

Pop(d, k) == [x \in (DOMAIN d) \ {k} |-> d[x]]

PopAll(d, ks) == [x \in (DOMAIN d) \ ks |-> d[x]]

\* the set of elements of a sequence
Range(s) == {s[i] : i \in DOMAIN s}

(* ------------------------- the two static maps ------------------------- *)

\* XML setting name -> internal setting key
material_property_setting_map ==
    [k \in {"print temperature", "heated bed temperature", "standby temperature",
            "print cooling", "retraction amount", "retraction speed"} |->
        CASE k = "print temperature" -> "material_print_temperature"
          [] k = "heated bed temperature" -> "material_bed_temperature"
          [] k = "standby temperature" -> "material_standby_temperature"
          [] k = "print cooling" -> "cool_fan_speed"
          [] k = "retraction amount" -> "retraction_amount"
          [] k = "retraction speed" -> "retraction_speed"]

\* XML product name -> machine definition id
product_id_map ==
    [k \in {"Ultimaker2", "Ultimaker2+", "Ultimaker2go", "Ultimaker2extended",
            "Ultimaker2extended+", "Ultimaker Original", "Ultimaker Original+"} |->
        CASE k = "Ultimaker2" -> "ultimaker2"
          [] k = "Ultimaker2+" -> "ultimaker2_plus"
          [] k = "Ultimaker2go" -> "ultimaker2_go"
          [] k = "Ultimaker2extended" -> "ultimaker2_extended"
          [] k = "Ultimaker2extended+" -> "ultimaker2_extended_plus"
          [] k = "Ultimaker Original" -> "ultimaker_original"
          [] k = "Ultimaker Original+" -> "ultimaker_original_plus"]

\* UM.Dictionary.findKey(map, value): the keys that map to value (empty: ValueError)
findKey(map, value) == {k \in DOMAIN map : map[k] = value}

(* -------------------- the registry's other containers ------------------ *)

\* definition containers the registry holds
DefinitionIds == {"fdmprinter", "ultimaker2", "ultimaker2_plus"}

\* variant (nozzle) containers the registry holds
VariantContainers ==
    { [id |-> "ultimaker2_plus_0.4", name |-> "0.4 mm", definition |-> "ultimaker2_plus"],
      [id |-> "ultimaker2_plus_0.6", name |-> "0.6 mm", definition |-> "ultimaker2_plus"] }

(* --------------------- InstanceContainer (base class) ------------------ *)

\* InstanceContainer.__init__(container_id)
NewContainer(id) ==
    [name |-> S(id), metadata |-> EmptyDict, definition |-> "", instances |-> EmptyDict,
     read_only |-> FALSE, dirty |-> FALSE]

BaseSetName(c, name) ==
    IF name /= c.name THEN [c EXCEPT !.name = name, !.dirty = TRUE] ELSE c

BaseSetMetaData(c, metadata) ==
    IF metadata /= c.metadata THEN [c EXCEPT !.metadata = metadata, !.dirty = TRUE] ELSE c

\* adds the entry only when the key is new
BaseAddMetaDataEntry(c, key, value) ==
    IF key \notin DOMAIN c.metadata
    THEN [c EXCEPT !.metadata = Put(c.metadata, key, value), !.dirty = TRUE]
    ELSE c

\* changes the entry only when the key exists
BaseSetMetaDataEntry(c, key, value) ==
    IF key \in DOMAIN c.metadata
    THEN [c EXCEPT !.metadata = Put(c.metadata, key, value), !.dirty = TRUE]
    ELSE c

BaseSetProperty(c, key, value) ==
    [c EXCEPT !.instances = Put(c.instances, key, value), !.dirty = TRUE]

BaseSetDefinition(c, definition) == [c EXCEPT !.definition = definition]

\* InstanceContainer.duplicate(new_id, new_name = None)
BaseDuplicate(c, new_id) ==
    [name |-> S(new_id), metadata |-> c.metadata, definition |-> c.definition,
     instances |-> c.instances, read_only |-> FALSE, dirty |-> TRUE]

getMetaDataEntry(c, key) == Get(c.metadata, key, None)

(* ------------------------- ContainerRegistry --------------------------- *)

\* a store: the container objects by id, the registry's list of ids, and whether
\* two live objects would have needed the same id
Store(cs, reg) == [containers |-> cs, registry |-> reg, clash |-> FALSE]

Registered(st) == Range(st.registry)

\* findInstanceContainers(GUID = guid), in registry order
FindByGUID(st, guid) ==
    SelectSeq(st.registry, LAMBDA id : getMetaDataEntry(st.containers[id], "GUID") = guid)

\* findInstanceContainers(id = id): the variant container found, if any
VariantsById(id) == {v \in VariantContainers : v.id = id}

\* findInstanceContainers(definition = definition, name = name)
VariantsByName(definition, name) ==
    {v \in VariantContainers : v.definition = definition /\ v.name = name}

\* ContainerRegistry.addContainer(obj): a container whose id is registered is refused
addContainer(st, id, obj) ==
    IF id \in Registered(st) THEN st
    ELSE IF id \in DOMAIN st.containers THEN [st EXCEPT !.clash = TRUE]
    ELSE [st EXCEPT !.containers = Put(st.containers, id, obj),
                    !.registry = Append(st.registry, id)]

\* apply F to every registered container whose GUID is guid
OnFamily(st, guid, F(_)) ==
    LET family == Range(FindByGUID(st, guid))
    IN  [st EXCEPT !.containers =
            [x \in DOMAIN st.containers |->
                IF x \in family THEN F(st.containers[x]) ELSE st.containers[x]]]

\* the result of a method call: the object it was called on, and the store
Result(self, st) == [self |-> self, st |-> st]

\* write the object a method was called on back into the store
Commit(r, id) == [r.st EXCEPT !.containers = Put(r.st.containers, id, r.self)]

(* ------------------ XmlMaterialProfile: propagation -------------------- *)

isReadOnly(c) == c.read_only

\* setReadOnly without the loop over the family
setReadOnlySelfOnly(st, self, read_only) ==
    Result([self EXCEPT !.read_only = read_only], st)

\* XmlMaterialProfile.setReadOnly
setReadOnly(st, self, read_only) ==
    LET s1 == [self EXCEPT !.read_only = read_only]
    IN  Result(s1, OnFamily(st, getMetaDataEntry(s1, "GUID"),
                            LAMBDA c : [c EXCEPT !.read_only = read_only]))

\* setMetaDataEntry whose loop copies the metadata and forgets container.setName
setMetaDataEntryNoSetName(st, self, key, value) ==
    IF self.read_only THEN Result(self, st)
    ELSE LET s1 == BaseSetMetaDataEntry(self, key, value)
             s2 == IF key = "material" THEN BaseSetName(s1, value) ELSE s1
         IN  Result(s2, OnFamily(st, getMetaDataEntry(s2, "GUID"),
                                 LAMBDA c : BaseSetMetaData(c, s2.metadata)))

\* setMetaDataEntry whose loop sets the one entry instead of copying the whole map
setMetaDataEntryOneKey(st, self, key, value) ==
    IF self.read_only THEN Result(self, st)
    ELSE LET s1 == BaseSetMetaDataEntry(self, key, value)
             s2 == IF key = "material" THEN BaseSetName(s1, value) ELSE s1
         IN  Result(s2, OnFamily(st, getMetaDataEntry(s2, "GUID"),
                 LAMBDA c : IF key = "material"
                            THEN BaseSetName(BaseSetMetaDataEntry(c, key, value), value)
                            ELSE BaseSetMetaDataEntry(c, key, value)))

\* XmlMaterialProfile.setMetaDataEntry
setMetaDataEntry(st, self, key, value) ==
    IF isReadOnly(self) THEN Result(self, st)
    ELSE LET s1 == BaseSetMetaDataEntry(self, key, value)
             s2 == IF key = "material" THEN BaseSetName(s1, value) ELSE s1
         IN  Result(s2, OnFamily(st, getMetaDataEntry(s2, "GUID"),
                 LAMBDA c : IF key = "material"
                            THEN BaseSetName(BaseSetMetaData(c, s2.metadata), value)
                            ELSE BaseSetMetaData(c, s2.metadata)))

\* setProperty without the read-only check
setPropertyUnguarded(st, self, key, value) ==
    LET s1 == BaseSetProperty(self, key, value)
    IN  Result(s1, OnFamily(st, getMetaDataEntry(s1, "GUID"),
                            LAMBDA c : [c EXCEPT !.dirty = TRUE]))

\* setProperty whose loop sets the value on the whole family
setPropertyOnFamily(st, self, key, value) ==
    IF self.read_only THEN Result(self, st)
    ELSE LET s1 == BaseSetProperty(self, key, value)
         IN  Result(s1, OnFamily(st, getMetaDataEntry(s1, "GUID"),
                                 LAMBDA c : BaseSetProperty(c, key, value)))

\* XmlMaterialProfile.setProperty(key, "value", value)
setProperty(st, self, key, value) ==
    IF isReadOnly(self) THEN Result(self, st)
    ELSE LET s1 == BaseSetProperty(self, key, value)
         IN  Result(s1, OnFamily(st, getMetaDataEntry(s1, "GUID"),
                                 LAMBDA c : [c EXCEPT !.dirty = TRUE]))

(* ---------------------- XmlMaterialProfile.deserialize ----------------- *)

\* A document:
\*   [name |-> [brand, material, color], meta |-> tag :> text, properties |-> tag :> text,
\*    settings |-> <<<<key, text>>, ...>>,
\*    machines |-> << [identifiers |-> <<product, ...>>, settings |-> <<...>>,
\*                     hotends |-> << [id |-> id, settings |-> <<...>>], ...>>], ...>>]

\* the metadata of `self` after the <metadata> and <properties> blocks are read
DeserializedMetaData(doc) ==
    LET m0 == Put(Put(EmptyDict, "type", S("material")), "status", S("unknown"))
        m1 == [k \in (DOMAIN m0) \cup {"brand", "material", "color_name"} |->
                 CASE k \in DOMAIN m0 -> m0[k]
                   [] k = "brand" -> ParsedText(doc.name.brand)
                   [] k = "material" -> ParsedText(doc.name.material)
                   [] k = "color_name" -> ParsedText(doc.name.color)]
        m2 == [k \in (DOMAIN m1) \cup (DOMAIN doc.meta) |->
                 IF k \in DOMAIN m1 THEN m1[k] ELSE ParsedText(doc.meta[k])]
        m3 == IF "description" \in DOMAIN m2 THEN m2 ELSE Put(m2, "description", S(""))
        m4 == IF "adhesion_info" \in DOMAIN m3 THEN m3 ELSE Put(m3, "adhesion_info", S(""))
        property_values == [k \in DOMAIN doc.properties |-> ParsedText(doc.properties[k])]
    IN  IF "properties" \in DOMAIN m4 THEN m4 ELSE Put(m4, "properties", property_values)

RECURSIVE SettingValues(_, _)
\* the dict a loop over <setting> entries builds: mapped keys only, later entries win
SettingValues(entries, n) ==
    IF n = 0 THEN EmptyDict
    ELSE LET d == SettingValues(entries, n - 1)
             key == entries[n][1]
         IN  IF key \in DOMAIN material_property_setting_map
             THEN Put(d, material_property_setting_map[key], ParsedText(entries[n][2]))
             ELSE d

RECURSIVE SetProperties(_, _, _, _)
\* for key, value in values.items(): obj.setProperty(key, "value", value, definition)
SetProperties(st, obj, values, keys) ==
    IF keys = {} THEN Result(obj, st)
    ELSE LET key == CHOOSE k \in keys : TRUE
             r == setProperty(st, obj, key, values[key])
         IN  SetProperties(r.st, r.self, values, keys \ {key})

RECURSIVE SetEntries(_, _, _, _)
\* for entry in settings: obj.setProperty(map[key], "value", entry.text) when key is mapped
SetEntries(st, obj, entries, i) ==
    IF i > Len(entries) THEN Result(obj, st)
    ELSE LET key == entries[i][1]
         IN  IF key \in DOMAIN material_property_setting_map
             THEN LET r == setProperty(st, obj, material_property_setting_map[key],
                                       ParsedText(entries[i][2]))
                  IN  SetEntries(r.st, r.self, entries, i + 1)
             ELSE SetEntries(st, obj, entries, i + 1)

\* a profile synthesized for a machine or a hotend, before its settings are applied
Synthesized(id, self, self_id, definition) ==
    LET c0 == NewContainer(id)
        c1 == BaseSetName(c0, self.name)
        c2 == BaseSetMetaData(c1, self.metadata)
        c3 == BaseSetDefinition(c2, definition)
    IN  BaseAddMetaDataEntry(c3, "base_file", S(self_id))

\* no hotend has this id attribute
NoAttr == "<no id>"

\* the variant containers a hotend id resolves to: by id, else by name in the definition
ResolveVariant(hotend_id, definition) ==
    IF VariantsById(hotend_id) /= {} THEN VariantsById(hotend_id)
    ELSE VariantsByName(definition, hotend_id)

RECURSIVE Hotends(_, _, _, _, _, _, _, _)
\* the loop over the <hotend> elements of one machine, for one machine identifier
Hotends(st, self, self_id, gsv, msv, machine_id, hotends, h) ==
    IF h > Len(hotends) THEN st
    ELSE LET hotend == hotends[h]
             variants == ResolveVariant(hotend.id, machine_id)
         IN  IF hotend.id = NoAttr \/ variants = {}
             THEN Hotends(st, self, self_id, gsv, msv, machine_id, hotends, h + 1)
             ELSE LET id == self_id \o "_" \o machine_id \o "_" \o ReplaceSpaces(hotend.id)
                      variant == CHOOSE v \in variants : TRUE
                      c0 == BaseAddMetaDataEntry(Synthesized(id, self, self_id, machine_id),
                                                 "variant", S(variant.id))
                      r1 == SetProperties(st, c0, gsv, DOMAIN gsv)
                      r2 == SetProperties(r1.st, r1.self, msv, DOMAIN msv)
                      r3 == SetEntries(r2.st, r2.self, hotend.settings, 1)
                      st4 == addContainer(r3.st, id, [r3.self EXCEPT !.dirty = FALSE])
                  IN  Hotends(st4, self, self_id, gsv, msv, machine_id, hotends, h + 1)

\* the machine profile with the global values applied after the machine's own
IdentifierGlobalLast(st, self, self_id, gsv, msv, machine, machine_id) ==
    LET id == self_id \o "_" \o machine_id
        c0 == Synthesized(id, self, self_id, machine_id)
        r1 == SetProperties(st, c0, msv, DOMAIN msv)
        r2 == SetProperties(r1.st, r1.self, gsv, DOMAIN gsv)
        st3 == addContainer(r2.st, id, [r2.self EXCEPT !.dirty = FALSE])
    IN  Hotends(st3, self, self_id, gsv, msv, machine_id, machine.hotends, 1)

\* one <machine_identifier>: the machine profile and its hotend profiles
Identifier(st, self, self_id, gsv, msv, machine, machine_id) ==
    LET id == self_id \o "_" \o machine_id
        c0 == Synthesized(id, self, self_id, machine_id)
        r1 == SetProperties(st, c0, gsv, DOMAIN gsv)
        r2 == SetProperties(r1.st, r1.self, msv, DOMAIN msv)
        st3 == addContainer(r2.st, id, [r2.self EXCEPT !.dirty = FALSE])
    IN  Hotends(st3, self, self_id, gsv, msv, machine_id, machine.hotends, 1)

RECURSIVE IdentifiersBreak(_, _, _, _, _, _, _)
\* the loop over the identifiers with `break` where the code has `continue`
IdentifiersBreak(st, self, self_id, gsv, msv, machine, i) ==
    IF i > Len(machine.identifiers) THEN st
    ELSE LET product == machine.identifiers[i]
         IN  IF product \notin DOMAIN product_id_map THEN st
             ELSE IF product_id_map[product] \notin DefinitionIds THEN st
             ELSE IdentifiersBreak(
                      Identifier(st, self, self_id, gsv, msv, machine, product_id_map[product]),
                      self, self_id, gsv, msv, machine, i + 1)

RECURSIVE Identifiers(_, _, _, _, _, _, _)
\* the loop over the <machine_identifier> elements of one machine
Identifiers(st, self, self_id, gsv, msv, machine, i) ==
    IF i > Len(machine.identifiers) THEN st
    ELSE LET product == machine.identifiers[i]
         IN  IF product \notin DOMAIN product_id_map
             THEN Identifiers(st, self, self_id, gsv, msv, machine, i + 1)
             ELSE IF product_id_map[product] \notin DefinitionIds
             THEN Identifiers(st, self, self_id, gsv, msv, machine, i + 1)
             ELSE Identifiers(
                      Identifier(st, self, self_id, gsv, msv, machine, product_id_map[product]),
                      self, self_id, gsv, msv, machine, i + 1)

RECURSIVE Machines(_, _, _, _, _, _)
\* the loop over the <machine> elements
Machines(st, self, self_id, gsv, machines, m) ==
    IF m > Len(machines) THEN st
    ELSE LET msv == SettingValues(machines[m].settings, Len(machines[m].settings))
         IN  Machines(Identifiers(st, self, self_id, gsv, msv, machines[m], 1),
                      self, self_id, gsv, machines, m + 1)

\* XmlMaterialProfile(self_id).deserialize(doc): the store afterwards; the new
\* object `self` is in the store, not in the registry
deserialize(st, self_id, doc) ==
    LET c0 == NewContainer(self_id)
        c1 == BaseSetName(c0, ParsedText(doc.name.material))
        c2 == BaseSetDefinition([c1 EXCEPT !.metadata = DeserializedMetaData(doc),
                                           !.dirty = TRUE], "fdmprinter")
        r3 == SetEntries(st, c2, doc.settings, 1)
        gsv == SettingValues(doc.settings, Len(doc.settings))
        self == [r3.self EXCEPT !.dirty = FALSE]
        st4 == Machines(r3.st, self, self_id, gsv, doc.machines, 1)
    IN  IF self_id \in DOMAIN st4.containers THEN [st4 EXCEPT !.clash = TRUE]
        ELSE [st4 EXCEPT !.containers = Put(st4.containers, self_id, self)]

(* ----------------------- XmlMaterialProfile.serialize ------------------ *)

RECURSIVE SeqOf(_)
\* the elements of a finite set, one after the other (dict iteration)
SeqOf(set) ==
    IF set = {} THEN <<>>
    ELSE LET x == CHOOSE y \in set : TRUE IN <<x>> \o SeqOf(set \ {x})

\* the root check with == where the code has !=
IsNonRootInverted(self, self_id) ==
    Truthy(Get(self.metadata, "base_file", S(""))) /\ S(self_id) = Get(self.metadata, "base_file", S(""))

\* the test serialize starts with: self is not the root of its family
IsNonRoot(self, self_id) ==
    LET base_file == Get(self.metadata, "base_file", S(""))
    IN  Truthy(base_file) /\ S(self_id) /= base_file

\* metadata keys serialize leaves out of <metadata>
TransientKeys == {"status", "variant", "type", "base_file"}

\* _addSettingElement: the <setting> elements one instance adds (none when the
\* setting key has no XML name)
SettingElement(key, value) ==
    LET names == findKey(material_property_setting_map, key)
    IN  IF names = {} THEN <<>>
        ELSE << <<CHOOSE k \in names : TRUE, Str(value)>> >>

\* the test without the comparison of the values
InheritedKey(parent, key, value) == key \in DOMAIN parent.instances

\* the test that leaves a setting out of a scope: parent holds the same value
InheritedFrom(parent, key, value) ==
    key \in DOMAIN parent.instances /\ parent.instances[key] = value

RECURSIVE SettingElements(_, _, _, _)
\* the <setting> elements of the instances of c; with compare, those whose value
\* parent holds too are left out
SettingElements(c, keys, compare, parent) ==
    IF keys = <<>> THEN <<>>
    ELSE LET key == Head(keys)
         IN  (IF compare /\ InheritedFrom(parent, key, c.instances[key]) THEN <<>>
              ELSE SettingElement(key, c.instances[key]))
             \o SettingElements(c, Tail(keys), compare, parent)

\* the maps the loop over all_containers builds
EmptyMaps == [order |-> <<>>, container |-> EmptyDict, nozzle |-> EmptyDict]

RECURSIVE ReplaceOrAppend(_, _, _)
\* dict[key] = value on a dict kept as a list of <<key, value>> in insertion order
ReplaceOrAppend(items, key, value) ==
    IF items = <<>> THEN << <<key, value>> >>
    ELSE IF Head(items)[1] = key THEN << <<key, value>> >> \o Tail(items)
    ELSE <<Head(items)>> \o ReplaceOrAppend(Tail(items), key, value)

\* one iteration of the loop without the assignment that ends it: the first
\* member seen for a machine stays its machine container
GroupContainerFirstSeen(maps, st, id) ==
    LET container == st.containers[id]
        definition_id == container.definition
        variant == getMetaDataEntry(container, "variant")
        m1 == IF definition_id \notin DOMAIN maps.container
              THEN [maps EXCEPT !.order = Append(@, definition_id),
                                !.container = Put(@, definition_id, id)]
              ELSE maps
        m2 == IF definition_id \notin DOMAIN m1.nozzle
              THEN [m1 EXCEPT !.nozzle = Put(@, definition_id, <<>>)]
              ELSE m1
    IN  IF definition_id = "fdmprinter" THEN maps
        ELSE IF Truthy(variant)
        THEN [m2 EXCEPT !.nozzle = Put(@, definition_id,
                                       ReplaceOrAppend(m2.nozzle[definition_id], variant, id))]
        ELSE m2

\* one iteration of the loop over all_containers
GroupContainer(maps, st, id) ==
    LET container == st.containers[id]
        definition_id == container.definition
        variant == getMetaDataEntry(container, "variant")
        m1 == IF definition_id \notin DOMAIN maps.container
              THEN [maps EXCEPT !.order = Append(@, definition_id),
                                !.container = Put(@, definition_id, id)]
              ELSE maps
        m2 == IF definition_id \notin DOMAIN m1.nozzle
              THEN [m1 EXCEPT !.nozzle = Put(@, definition_id, <<>>)]
              ELSE m1
    IN  IF definition_id = "fdmprinter" THEN maps
        ELSE IF Truthy(variant)
        THEN [m2 EXCEPT !.nozzle = Put(@, definition_id,
                                       ReplaceOrAppend(m2.nozzle[definition_id], variant, id))]
        ELSE [m2 EXCEPT !.container = Put(@, definition_id, id)]

RECURSIVE GroupContainers(_, _, _)
\* machine_container_map and machine_nozzle_map after the first n of all_containers
GroupContainers(st, all_containers, n) ==
    IF n = 0 THEN EmptyMaps
    ELSE GroupContainer(GroupContainers(st, all_containers, n - 1), st, all_containers[n])

RECURSIVE HotendElements(_, _, _)
\* the <hotend> elements of one machine
HotendElements(st, container, nozzles) ==
    IF nozzles = <<>> THEN <<>>
    ELSE LET hotend == st.containers[Head(nozzles)[2]]
             variant_containers == VariantsById(Str(getMetaDataEntry(hotend, "variant")))
         IN  (IF variant_containers = {} THEN <<>>
              ELSE << [id |-> (CHOOSE v \in variant_containers : TRUE).name,
                       settings |-> SettingElements(hotend, SeqOf(DOMAIN hotend.instances),
                                                    TRUE, container)] >>)
             \o HotendElements(st, container, Tail(nozzles))

RECURSIVE MachineElements(_, _, _, _)
\* the <machine> elements
MachineElements(st, self, maps, order) ==
    IF order = <<>> THEN <<>>
    ELSE LET definition_id == Head(order)
             container == st.containers[maps.container[definition_id]]
             products == findKey(product_id_map, definition_id)
         IN  (IF products = {} THEN <<>>
              ELSE << [identifiers |-> << CHOOSE p \in products : TRUE >>,
                       settings |-> SettingElements(container, SeqOf(DOMAIN container.instances),
                                                    self.definition = "fdmprinter", self),
                       hotends |-> HotendElements(st, container, maps.nozzle[definition_id])] >>)
             \o MachineElements(st, self, maps, Tail(order))

\* the document serialize writes for a profile that passed the root check
SerializedDocument(st, self_id) ==
    LET self == st.containers[self_id]
        properties == Get(self.metadata, "properties", EmptyDict)
        metadata == PopAll(self.metadata, TransientKeys \cup {"properties"})
        rest == PopAll(metadata, {"brand", "material", "color_name"})
        maps == LET all == FindByGUID(st, getMetaDataEntry(self, "GUID"))
                IN  GroupContainers(st, all, Len(all))
    IN  [name |-> [brand |-> WrittenText(Get(metadata, "brand", S(""))),
                   material |-> WrittenText(Get(metadata, "material", S(""))),
                   color |-> WrittenText(Get(metadata, "color_name", S("")))],
         meta |-> [k \in DOMAIN rest |-> WrittenText(rest[k])],
         properties |-> [k \in DOMAIN properties |-> WrittenText(properties[k])],
         settings |-> IF self.definition = "fdmprinter"
                      THEN SettingElements(self, SeqOf(DOMAIN self.instances), FALSE, self)
                      ELSE <<>>,
         machines |-> MachineElements(st, self, maps, maps.order)]

NotImplementedError == "NotImplementedError"

\* no XML at all
NoDocument ==
    [name |-> [brand |-> "", material |-> "", color |-> ""], meta |-> EmptyDict,
     properties |-> EmptyDict, settings |-> <<>>, machines |-> <<>>]

\* what serialize gives: the error it raises, or the document it returns
serialize(st, self_id) ==
    IF IsNonRoot(st.containers[self_id], self_id)
    THEN [error |-> NotImplementedError, xml |-> NoDocument]
    ELSE [error |-> "", xml |-> SerializedDocument(st, self_id)]

(* ----------------------- XmlMaterialProfile.duplicate ------------------ *)

\* the values uuid.uuid4() gives, in the order it gives them
UuidPool == <<"u1", "u2", "u3">>

GuidsInUse(st) == {getMetaDataEntry(st.containers[id], "GUID") : id \in DOMAIN st.containers}

\* str(uuid.uuid4()) of the call at nesting depth `depth`: a GUID no container has
NewUuid(st, depth) ==
    LET free == SelectSeq(UuidPool, LAMBDA u : S(u) \notin GuidsInUse(st))
    IN  IF depth <= Len(free) THEN free[depth] ELSE "exhausted"

\* what duplicate gives: the store and the new object (not registered, not in the
\* store), or the error it raises
Duplicated(st, obj, id) == [st |-> st, obj |-> obj, id |-> id, error |-> ""]

Raised(st, error) ==
    [st |-> st, obj |-> NewContainer(""), id |-> "", error |-> error]

\* lines 41-45: the copy, its GUID and its base_file
DuplicateSelf(st, self, new_id, new_uuid, base_file) ==
    LET r1 == setMetaDataEntry(st, BaseDuplicate(self, new_id), "GUID", S(new_uuid))
        r2 == IF Truthy(getMetaDataEntry(r1.self, "base_file"))
              THEN setMetaDataEntry(r1.st, r1.self, "base_file", base_file)
              ELSE r1
    IN  Duplicated(r2.st, r2.self, new_id)

\* lines 34-39: the id of the copy of a profile whose base file was copied
DerivedId(self, new_id) ==
    LET id == Str(getMetaDataEntry(self, "brand")) \o "_" \o new_id \o "_" \o self.definition
        variant == getMetaDataEntry(self, "variant")
        variant_containers == VariantsById(Str(variant))
    IN  IF Truthy(variant) /\ variant_containers /= {}
        THEN id \o "_" \o ReplaceSpaces((CHOOSE v \in variant_containers : TRUE).name)
        ELSE id

RECURSIVE duplicate(_, _, _, _)
\* self.duplicate(new_id), the call at nesting depth `depth`
duplicate(st, self, new_id, depth) ==
    LET base_file == getMetaDataEntry(self, "base_file")
        new_uuid == NewUuid(st, depth)
        found == Truthy(base_file) /\ Str(base_file) \in Registered(st)
    IN  IF depth > Cardinality(DOMAIN st.containers) + 1 THEN Raised(st, "RecursionError")
        ELSE IF ~found THEN DuplicateSelf(st, self, new_id, new_uuid, base_file)
        ELSE IF getMetaDataEntry(self, "brand") = None THEN Raised(st, "TypeError")
        ELSE LET base_id == Str(getMetaDataEntry(self, "brand")) \o "_" \o new_id
                 b == duplicate(st, st.containers[Str(base_file)], base_id, depth + 1)
                 r == setMetaDataEntry(b.st, b.obj, "GUID", S(new_uuid))
                 st2 == addContainer(r.st, b.id, r.self)
             IN  IF b.error /= "" THEN Raised(b.st, b.error)
                 ELSE DuplicateSelf(st2, self, DerivedId(self, new_id), new_uuid, S(b.id))

(* ------------------------------ inputs --------------------------------- *)

\* ids the caller gives to the profiles it deserializes into
RootIds == {"a", "b"}

\* ids the caller gives to duplicate
NewIds == {"c"}

\* the <machine> blocks of the documents
MachinePlus ==
    [identifiers |-> <<"Ultimaker2+">>,
     settings |-> << <<"print temperature", "210">>, <<"retraction amount", "4.5">> >>,
     hotends |-> << [id |-> "0.4 mm", settings |-> << <<"print temperature", "200">> >>],
                    [id |-> "0.6 mm", settings |-> << <<"print temperature", "210">> >>] >>]

MachineUnknownFirst ==
    [identifiers |-> <<"UnknownPrinter9000", "Ultimaker2+">>,
     settings |-> << <<"print temperature", "200">>, <<"unsupported", "1">> >>,
     hotends |-> << [id |-> "0.4 mm", settings |-> <<>>] >>]

MachineTwo ==
    [identifiers |-> <<"Ultimaker2">>,
     settings |-> << <<"retraction amount", "4.5">> >>,
     hotends |-> << [id |-> NoAttr, settings |-> <<>>],
                    [id |-> "unknown nozzle", settings |-> <<>>] >>]

MachinePlain ==
    [identifiers |-> <<"Ultimaker2+">>,
     settings |-> << <<"print temperature", "220">> >>,
     hotends |-> <<>>]

MachineNoDefinition ==
    [identifiers |-> <<"Ultimaker2go">>, settings |-> <<>>, hotends |-> <<>>]

\* a material file
Document(guid, settings, machines) ==
    [name |-> [brand |-> "Generic", material |-> "PLA", color |-> "Red"],
     meta |-> ("GUID" :> guid),
     properties |-> ("diameter" :> "2.85"),
     settings |-> settings,
     machines |-> machines]

Documents ==
    { Document("g1", << <<"print temperature", "200">> >>, <<>>),
      Document("g1", << <<"print temperature", "200">>, <<"heated bed temperature", "60">> >>,
               <<MachinePlus>>),
      Document("g2", << <<"print temperature", "200">>, <<"unsupported", "1">> >>,
               <<MachineUnknownFirst, MachineTwo>>),
      Document("g2", <<>>, <<MachineNoDefinition, MachinePlain>>) }

\* arguments of setMetaDataEntry
MetaDataArgs ==
    { <<"material", S("PLA Red")>>, <<"GUID", S("g2")>> }

\* arguments of setProperty(key, "value", value)
PropertyArgs ==
    { <<"material_print_temperature", S("210")>>,
      <<"material_print_temperature", <<"int", "210">> >>,
      <<"layer_height", S("0.1")>> }

True == <<"bool", "True">>

False == <<"bool", "False">>

(* ---------------------------- the program ------------------------------ *)

Call(op, id, key, value, outcome, out) ==
    [op |-> op, id |-> id, key |-> key, value |-> value, outcome |-> outcome, out |-> out]

store == Store(containers, registry)

\* the store after a call, within the bounds
Becomes(st) ==
    /\ ~st.clash
    /\ Cardinality(DOMAIN st.containers) <= MaxContainers
    /\ containers' = st.containers
    /\ registry' = st.registry
    /\ steps' = steps + 1

Init ==
    /\ containers = EmptyDict
    /\ registry = <<>>
    /\ last = Call("init", "", "", None, "", NoDocument)
    /\ steps = 0

\* the documents a caller can hand to deserialize: a material file, or what
\* serialize has just written
Readable ==
    Documents \cup (IF last.op = "serialize" /\ last.outcome = "ok" THEN {last.out} ELSE {})

\* p = XmlMaterialProfile(self_id); p.deserialize(doc)
Deserialize(self_id, doc) ==
    /\ steps < MaxSteps
    /\ self_id \notin DOMAIN containers
    /\ Becomes(deserialize(store, self_id, doc))
    /\ last' = Call("deserialize", self_id, "", None, "ok", doc)

\* ContainerRegistry.addContainer(p), by the caller of deserialize or duplicate
AddContainer(id) ==
    /\ steps < MaxSteps
    /\ id \in (DOMAIN containers) \ Range(registry)
    /\ containers' = containers
    /\ registry' = Append(registry, id)
    /\ steps' = steps + 1
    /\ last' = Call("addContainer", id, "", None, "ok", NoDocument)

SetReadOnly(id, read_only) ==
    /\ steps < MaxSteps
    /\ id \in DOMAIN containers
    /\ Becomes(Commit(setReadOnly(store, containers[id], read_only = True), id))
    /\ last' = Call("setReadOnly", id, "", read_only, "ok", NoDocument)

SetMetaDataEntry(id, key, value) ==
    /\ steps < MaxSteps
    /\ id \in DOMAIN containers
    /\ Becomes(Commit(setMetaDataEntry(store, containers[id], key, value), id))
    /\ last' = Call("setMetaDataEntry", id, key, value,
                    IF isReadOnly(containers[id]) THEN "ignored" ELSE "ok", NoDocument)

SetProperty(id, key, value) ==
    /\ steps < MaxSteps
    /\ id \in DOMAIN containers
    /\ Becomes(Commit(setProperty(store, containers[id], key, value), id))
    /\ last' = Call("setProperty", id, key, value,
                    IF isReadOnly(containers[id]) THEN "ignored" ELSE "ok", NoDocument)

Serialize(id) ==
    /\ steps < MaxSteps
    /\ id \in DOMAIN containers
    /\ Becomes(store)
    /\ LET r == serialize(store, id)
       IN  last' = Call("serialize", id, "", None,
                        IF r.error /= "" THEN r.error ELSE "ok", r.xml)

\* q = p.duplicate(new_id); q is not registered
Duplicate(id, new_id) ==
    /\ steps < MaxSteps
    /\ id \in DOMAIN containers
    /\ NewUuid(store, 2) /= "exhausted"
    /\ LET d == duplicate(store, containers[id], new_id, 1)
       IN  IF d.error /= ""
           THEN /\ Becomes(d.st)
                /\ last' = Call("duplicate", id, new_id, None, d.error, NoDocument)
           ELSE /\ d.id \notin DOMAIN d.st.containers
                /\ Becomes([d.st EXCEPT !.containers = Put(@, d.id, d.obj)])
                /\ last' = Call("duplicate", id, new_id, S(d.id), "ok", NoDocument)

Next ==
    \/ \E id \in RootIds, doc \in Readable : Deserialize(id, doc)
    \/ \E id \in DOMAIN containers : AddContainer(id)
    \/ \E id \in DOMAIN containers, read_only \in {True, False} : SetReadOnly(id, read_only)
    \/ \E id \in DOMAIN containers, a \in MetaDataArgs : SetMetaDataEntry(id, a[1], a[2])
    \/ \E id \in DOMAIN containers, a \in PropertyArgs : SetProperty(id, a[1], a[2])
    \/ \E id \in DOMAIN containers : Serialize(id)
    \/ \E id \in DOMAIN containers, new_id \in NewIds : Duplicate(id, new_id)

Spec == Init /\ [][Next]_vars

(* ------------------------------ properties ----------------------------- *)

Guid(id) == getMetaDataEntry(containers[id], "GUID")

\* the registered profiles that share the GUID of id
Siblings(id) == {x \in Range(registry) : Guid(x) = Guid(id)}

\* the step is a call, and last' describes it
Called(ops) == steps' = steps + 1 /\ last'.op \in ops

HasBaseFile(id) == Truthy(getMetaDataEntry(containers[id], "base_file"))

\* C1: serialize on a profile whose base_file metadata is set and differs from
\* its id raises NotImplementedError and returns no XML.
C1_NonRootSerializeRejected ==
    (/\ last.op = "serialize"
     /\ HasBaseFile(last.id)
     /\ getMetaDataEntry(containers[last.id], "base_file") /= S(last.id))
    => (last.outcome = NotImplementedError /\ last.out = NoDocument)

C1_Witness ==
    /\ last.op = "serialize"
    /\ HasBaseFile(last.id)
    /\ getMetaDataEntry(containers[last.id], "base_file") /= S(last.id)
    /\ last.outcome = NotImplementedError

\* C2: after setReadOnly(v) on a profile, the profile and every registered
\* profile with its GUID have read_only = v.
C2_ReadOnlyPropagates ==
    last.op = "setReadOnly"
    => \A x \in Siblings(last.id) \cup {last.id} :
           containers[x].read_only = (last.value = True)

C2_Witness ==
    /\ last.op = "setReadOnly"
    /\ last.value = True
    /\ \E x \in Siblings(last.id) \ {last.id} : containers[x].read_only

\* C3 as claimed: after setMetaDataEntry("material", v) on any family member,
\* the member and every registered profile with its GUID have the name v.
C3_Original ==
    (last.op = "setMetaDataEntry" /\ last.key = "material")
    => \A x \in Siblings(last.id) \cup {last.id} : containers[x].name = last.value

\* C3 as amended: after setMetaDataEntry("material", v) on a family member that
\* is not read-only, the member and every registered profile with its GUID have
\* the name v.
C3_NamePropagates ==
    (last.op = "setMetaDataEntry" /\ last.key = "material" /\ last.outcome = "ok")
    => \A x \in Siblings(last.id) \cup {last.id} : containers[x].name = last.value

C3_Witness ==
    /\ last.op = "setMetaDataEntry"
    /\ last.key = "material"
    /\ last.outcome = "ok"
    /\ \E x \in Siblings(last.id) \ {last.id} : containers[x].name = last.value

\* C4: setMetaDataEntry and setProperty on a read-only profile raise nothing
\* and change no container: metadata, names, setting values and dirty flags of
\* the profile and of every other profile stay as they were.
C4_ReadOnlyIgnoresMutation ==
    [][(Called({"setMetaDataEntry", "setProperty"}) /\ containers[last'.id].read_only)
       => (last'.outcome = "ignored" /\ containers' = containers /\ registry' = registry)]_vars

C4_Witness ==
    /\ last.op = "setProperty"
    /\ containers[last.id].read_only
    /\ last.outcome = "ignored"
    /\ last.key \notin DOMAIN containers[last.id].instances
    /\ \E x \in Siblings(last.id) \ {last.id} : ~containers[x].dirty

\* the profiles, registered or not, whose GUID is g
Family(g) == {x \in DOMAIN containers : Guid(x) = g}

\* C5 as claimed: every GUID family has exactly one member without base_file,
\* and the base_file of every other member is that member's id.
C5_OneRootPerFamily ==
    \A g \in GuidsInUse(store) :
        LET roots == {x \in Family(g) : ~HasBaseFile(x)}
        IN  /\ Cardinality(roots) = 1
            /\ \A x \in Family(g) \ roots :
                   \A r \in roots : getMetaDataEntry(containers[x], "base_file") = S(r)

XmlNames(key) == findKey(material_property_setting_map, key)

\* a <setting> for the setting key is among the elements
HasElement(settings, key) == \E e \in Range(settings) : e[1] \in XmlNames(key)

\* the <setting> of the key with this value is among the elements
Emitted(settings, key, value) ==
    \E e \in Range(settings) : e[1] \in XmlNames(key) /\ e[2] = Str(value)

\* the <setting> elements of one scope against the profile c they come from and
\* the profile of the parent scope: a value the parent holds too is left out;
\* every other value (with mappedOnly: of a key that has an XML name) is there
ScopeIsDelta(settings, c, parent, mappedOnly) ==
    \A key \in DOMAIN c.instances :
        IF key \in DOMAIN parent.instances /\ parent.instances[key] = c.instances[key]
        THEN ~HasElement(settings, key)
        ELSE (mappedOnly => XmlNames(key) /= {}) => Emitted(settings, key, c.instances[key])

\* the grouping serialize made of the family of the profile it was called on
LastMaps ==
    LET all == FindByGUID(store, Guid(last.id)) IN GroupContainers(store, all, Len(all))

\* the hotend profiles a <hotend> element of the machine definition_id stands for
HotendProfiles(definition_id, hotend_id) ==
    { containers[e[2]] : e \in { n \in Range(LastMaps.nozzle[definition_id]) :
                                   \E v \in VariantsById(Str(n[1])) : v.name = hotend_id } }

\* every <machine> and <hotend> of the document just written is a delta
DocumentIsDelta(mappedOnly) ==
    \A m \in Range(last.out.machines) :
        LET definition_id == product_id_map[m.identifiers[1]]
            container == containers[LastMaps.container[definition_id]]
        IN  /\ ScopeIsDelta(m.settings, container, containers[last.id], mappedOnly)
            /\ \A h \in Range(m.hotends) :
                   \A hotend \in HotendProfiles(definition_id, h.id) :
                       ScopeIsDelta(h.settings, hotend, container, mappedOnly)

SerializedRoot ==
    /\ last.op = "serialize"
    /\ last.outcome = "ok"
    /\ containers[last.id].definition = "fdmprinter"

\* C6 as claimed: in the XML of a root profile no <setting> of a <machine>
\* repeats the root's value of the key, none of a <hotend> repeats the machine
\* container's value, and every setting that differs from the parent scope or
\* that the parent scope lacks is emitted.
C6_Original == SerializedRoot => DocumentIsDelta(FALSE)

\* C6 as amended: the same, where the settings that are emitted are those whose
\* key has an XML name in the setting map; a setting without one is never
\* emitted.
C6_DeltaSuppression == SerializedRoot => DocumentIsDelta(TRUE)

C6_Witness ==
    /\ SerializedRoot
    /\ \E m \in Range(last.out.machines) :
           LET definition_id == product_id_map[m.identifiers[1]]
               container == containers[LastMaps.container[definition_id]]
           IN  /\ m.settings /= <<>>
               /\ \E h \in Range(m.hotends) :
                      /\ h.settings = <<>>
                      /\ \E hotend \in HotendProfiles(definition_id, h.id) :
                             \E key \in DOMAIN hotend.instances :
                                 InheritedFrom(container, key, hotend.instances[key])
    /\ \E m \in Range(last.out.machines) :
           /\ m.settings = <<>>
           /\ \E key \in DOMAIN containers[last.id].instances :
                  InheritedFrom(containers[LastMaps.container[product_id_map[m.identifiers[1]]]],
                                key, containers[last.id].instances[key])

\* the family of id has no machine or hotend profile
NoSpecializations(id) ==
    \A x \in Family(Guid(id)) : containers[x].definition = "fdmprinter"

\* q holds what p holds: metadata but for the transient keys, properties, settings
SameProfile(p, q) ==
    /\ PopAll(q.metadata, TransientKeys \cup {"properties"})
         = PopAll(p.metadata, TransientKeys \cup {"properties"})
    /\ Get(q.metadata, "properties", EmptyDict) = Get(p.metadata, "properties", EmptyDict)
    /\ \A key \in DOMAIN p.instances :
           key \in DOMAIN q.instances /\ q.instances[key] = p.instances[key]

\* C7 as claimed: a profile deserialized from what serialize writes for a root p
\* without specializations holds p's metadata (but for status, variant, type,
\* base_file), p's properties and p's setting values.
C7_RoundTrip ==
    last.op = "deserialize"
    => \A p \in (DOMAIN containers) \ {last.id} :
           (/\ ~IsNonRoot(containers[p], p)
            /\ NoSpecializations(p)
            /\ serialize(store, p).xml = last.out)
           => SameProfile(containers[p], containers[last.id])

\* the ids of the profiles deserialize has to synthesize for a document
ExpectedProfiles(doc, self_id) ==
    UNION { UNION { LET machine_id == product_id_map[product]
                        id == self_id \o "_" \o machine_id
                    IN  {id} \cup { id \o "_" \o ReplaceSpaces(h.id) :
                                      h \in { x \in Range(m.hotends) :
                                                /\ x.id /= NoAttr
                                                /\ ResolveVariant(x.id, machine_id) /= {} } }
                    : product \in { x \in Range(m.identifiers) :
                                      /\ x \in DOMAIN product_id_map
                                      /\ product_id_map[x] \in DefinitionIds } }
            : m \in Range(doc.machines) }

\* C8: deserialize raises nothing for a <machine_identifier> whose product is
\* unknown, makes no profile for it, and makes and registers the profiles of
\* every other identifier and <machine> of the document.
C8_UnknownProductSkipped ==
    [][Called({"deserialize"})
       => /\ last'.outcome = "ok"
          /\ DOMAIN containers' =
               (DOMAIN containers) \cup {last'.id} \cup ExpectedProfiles(last'.out, last'.id)
          /\ Range(registry') = Range(registry) \cup ExpectedProfiles(last'.out, last'.id)]_vars

C8_Witness ==
    /\ last.op = "deserialize"
    /\ last.outcome = "ok"
    /\ \E i \in DOMAIN last.out.machines :
           /\ last.out.machines[i].identifiers[1] \notin DOMAIN product_id_map
           /\ Len(last.out.machines[i].identifiers) > 1
           /\ i < Len(last.out.machines)
    /\ Cardinality(ExpectedProfiles(last.out, last.id)) >= 3
    /\ ExpectedProfiles(last.out, last.id) \subseteq Range(registry)

\* C9: after setMetaDataEntry(key, value) on a profile p that is not read-only,
\* every registered profile with p's GUID holds p's metadata map, which holds
\* the value under the key when p had the key.
C9_MetaDataPropagates ==
    (last.op = "setMetaDataEntry" /\ last.outcome = "ok")
    => /\ \A x \in Siblings(last.id) :
              containers[x].metadata = containers[last.id].metadata
       /\ last.key \in DOMAIN containers[last.id].metadata
              => containers[last.id].metadata[last.key] = last.value

C9_Witness ==
    /\ last.op = "setMetaDataEntry"
    /\ last.outcome = "ok"
    /\ getMetaDataEntry(containers[last.id], last.key) = last.value
    /\ \E x \in Siblings(last.id) \ {last.id} :
           /\ containers[x].definition /= containers[last.id].definition
           /\ containers[x].metadata = containers[last.id].metadata

\* C10: setProperty(key, "value", v) on a profile p that is not read-only sets
\* the value in p alone, every other profile keeps its setting values, and
\* every registered profile with p's GUID is dirty afterwards.
C10_SetPropertyFrame ==
    [][(Called({"setProperty"}) /\ last'.outcome = "ok")
       => /\ DOMAIN containers' = DOMAIN containers
          /\ containers'[last'.id].instances =
               Put(containers[last'.id].instances, last'.key, last'.value)
          /\ \A x \in (DOMAIN containers) \ {last'.id} :
                 containers'[x].instances = containers[x].instances
          /\ \A x \in Range(registry') :
                 getMetaDataEntry(containers'[x], "GUID")
                   = getMetaDataEntry(containers'[last'.id], "GUID")
                 => containers'[x].dirty]_vars

C10_Witness ==
    /\ last.op = "setProperty"
    /\ last.outcome = "ok"
    /\ containers[last.id].instances[last.key] = last.value
    /\ \E x \in Siblings(last.id) \ {last.id} :
           /\ containers[x].dirty
           /\ Get(containers[x].instances, last.key, None) /= last.value

\* the <setting> entries of one block that declare the setting key
Declaring(entries, key) == {i \in DOMAIN entries : entries[i][1] \in XmlNames(key)}

\* the profile c holds, for the key, what the first of the blocks that declares
\* the key declares (the last such entry of the block), and nothing when no
\* block declares it
HoldsDeclared(c, key, blocks) ==
    LET declaring == {b \in DOMAIN blocks : Declaring(blocks[b], key) /= {}}
    IN  IF declaring = {} THEN key \notin DOMAIN c.instances
        ELSE LET b == CHOOSE x \in declaring : \A y \in declaring : x <= y
                 i == CHOOSE x \in Declaring(blocks[b], key) :
                          \A y \in Declaring(blocks[b], key) : y <= x
             IN  /\ key \in DOMAIN c.instances
                 /\ c.instances[key] = ParsedText(blocks[b][i][2])

\* the setting keys that have an XML name
MappedKeys == {material_property_setting_map[k] : k \in DOMAIN material_property_setting_map}

\* the products of a <machine> that deserialize makes profiles for
KnownProducts(m) ==
    {x \in Range(m.identifiers) : x \in DOMAIN product_id_map /\ product_id_map[x] \in DefinitionIds}

\* the <hotend> elements of a <machine> that deserialize makes profiles for
ResolvedHotends(m, machine_id) ==
    {x \in Range(m.hotends) : x.id /= NoAttr /\ ResolveVariant(x.id, machine_id) /= {}}

\* C11: for every mapped setting key, a hotend profile synthesized by deserialize
\* holds the value of its <hotend> block, else that of the enclosing <machine>
\* block, else the global value, else nothing; a synthesized machine profile
\* holds the value of its <machine> block, else the global value.
C11_OverrideOrder ==
    [][Called({"deserialize"})
       => \A m \in Range(last'.out.machines) : \A product \in KnownProducts(m) :
              LET machine_id == product_id_map[product]
                  id == last'.id \o "_" \o machine_id
              IN  /\ id \in DOMAIN containers'
                  /\ \A key \in MappedKeys :
                         HoldsDeclared(containers'[id], key, <<m.settings, last'.out.settings>>)
                  /\ \A h \in ResolvedHotends(m, machine_id) :
                         LET hid == id \o "_" \o ReplaceSpaces(h.id)
                         IN  /\ hid \in DOMAIN containers'
                             /\ \A key \in MappedKeys :
                                    HoldsDeclared(containers'[hid], key,
                                        <<h.settings, m.settings, last'.out.settings>>)]_vars

C11_Witness ==
    /\ last.op = "deserialize"
    /\ \E m \in Range(last.out.machines) : \E product \in KnownProducts(m) :
         \E h \in ResolvedHotends(m, product_id_map[product]) :
           LET hid == last.id \o "_" \o product_id_map[product] \o "_" \o ReplaceSpaces(h.id)
               c == containers[hid]
               own == {k \in MappedKeys : Declaring(h.settings, k) /= {}}
               machine == {k \in MappedKeys : Declaring(m.settings, k) /= {}}
               global == {k \in MappedKeys : Declaring(last.out.settings, k) /= {}}
           IN  /\ \E k \in own \cap machine : c.instances[k] /= containers[last.id \o "_" \o product_id_map[product]].instances[k]
               /\ \E k \in machine \ own : c.instances[k] = S("4.5")
               /\ \E k \in global \ (own \cup machine) : c.instances[k] = S("60")
               /\ \E k \in MappedKeys \ (own \cup machine \cup global) : k \notin DOMAIN c.instances

\* C12 as claimed: when deserialize returns, the profile deserialized into and
\* every machine and hotend profile it synthesized and registered are not dirty.
C12_CleanAfterDeserialize ==
    last.op = "deserialize"
    => /\ ~containers[last.id].dirty
       /\ \A id \in ExpectedProfiles(last.out, last.id) : ~containers[id].dirty

\* the base_file of the profile id names a registered profile
BaseResolves(id) ==
    HasBaseFile(id) /\ Str(getMetaDataEntry(containers[id], "base_file")) \in Range(registry)

\* C13 as claimed: duplicate of a profile whose base_file names a registered
\* profile registers a copy of that base and returns a new profile; the two have
\* one GUID that no profile had before, the returned profile's base_file is the
\* id of the base copy, and the base copy has no variant and no base_file that
\* names another profile.
C13_DuplicateMakesFamily ==
    [][(Called({"duplicate"}) /\ BaseResolves(last'.id))
       => /\ last'.outcome = "ok"
          /\ Str(last'.value) \in (DOMAIN containers') \ (DOMAIN containers)
          /\ \E b \in Range(registry') \ Range(registry) :
                 LET q == containers'[Str(last'.value)]
                     base == containers'[b]
                 IN  /\ getMetaDataEntry(q, "GUID") = getMetaDataEntry(base, "GUID")
                     /\ getMetaDataEntry(q, "GUID") \notin GuidsInUse(store)
                     /\ getMetaDataEntry(q, "base_file") = S(b)
                     /\ "variant" \notin DOMAIN base.metadata
                     /\ getMetaDataEntry(base, "base_file") \in {None, S(b)}]_vars

\* the registered members of the family serialize was called on whose definition
\* is definition_id and that have no variant, in registry order
PlainMembers(definition_id) ==
    SelectSeq(FindByGUID(store, Guid(last.id)),
              LAMBDA x : /\ containers[x].definition = definition_id
                         /\ ~Truthy(getMetaDataEntry(containers[x], "variant")))

\* C14 as claimed: in the grouping serialize makes, the machine container of a
\* machine definition id, whose settings are emitted as machine-scope settings,
\* never has a variant, and it is the last member without a variant for that
\* id in registry order.
C14_Original ==
    (last.op = "serialize" /\ last.outcome = "ok")
    => \A definition_id \in DOMAIN LastMaps.container :
           LET plain == PlainMembers(definition_id)
               container == LastMaps.container[definition_id]
           IN  /\ ~Truthy(getMetaDataEntry(containers[container], "variant"))
               /\ plain /= <<>> => container = plain[Len(plain)]

\* the registered members of the family whose definition is definition_id
MachineMembers(definition_id) ==
    SelectSeq(FindByGUID(store, Guid(last.id)),
              LAMBDA x : containers[x].definition = definition_id)

\* the last member without a variant, or the first member when all have one
ExpectedMachineContainer(definition_id) ==
    LET plain == PlainMembers(definition_id)
    IN  IF plain /= <<>> THEN plain[Len(plain)] ELSE MachineMembers(definition_id)[1]

\* C14 as amended: serialize groups the registered family members other than
\* those of fdmprinter by definition id; the machine container of an id is the
\* last member without a variant in registry order, wherever the members with a
\* variant stand, and only when every member of the id has a variant it is the
\* first of them; the nozzle map holds exactly the members with a variant, the
\* last one of each variant; the machine-scope settings of the document are
\* values of the machine container.
C14_Grouping ==
    (last.op = "serialize" /\ last.outcome = "ok")
    => /\ DOMAIN LastMaps.container
            = {containers[x].definition : x \in Siblings(last.id)} \ {"fdmprinter"}
       /\ \A definition_id \in DOMAIN LastMaps.container :
              LET members == MachineMembers(definition_id)
                  nozzles == LastMaps.nozzle[definition_id]
                  variant(x) == getMetaDataEntry(containers[x], "variant")
              IN  /\ LastMaps.container[definition_id] = ExpectedMachineContainer(definition_id)
                  /\ \A n \in Range(nozzles) : Truthy(variant(n[2])) /\ variant(n[2]) = n[1]
                  /\ \A i \in DOMAIN members :
                         Truthy(variant(members[i]))
                         => \E n \in Range(nozzles) :
                                /\ n[1] = variant(members[i])
                                /\ \E j \in DOMAIN members :
                                       /\ members[j] = n[2]
                                       /\ j >= i
       /\ \A m \in Range(last.out.machines) :
              LET c == containers[ExpectedMachineContainer(product_id_map[m.identifiers[1]])]
              IN  \A e \in Range(m.settings) :
                      /\ material_property_setting_map[e[1]] \in DOMAIN c.instances
                      /\ e[2] = Str(c.instances[material_property_setting_map[e[1]]])

C14_Witness ==
    /\ last.op = "serialize"
    /\ last.outcome = "ok"
    /\ \E m \in Range(last.out.machines) :
           LET definition_id == product_id_map[m.identifiers[1]]
               members == MachineMembers(definition_id)
               plain == PlainMembers(definition_id)
           IN  /\ Len(plain) >= 2
               /\ \E i, j \in DOMAIN members :
                      /\ i < j
                      /\ Truthy(getMetaDataEntry(containers[members[i]], "variant"))
                      /\ members[j] = plain[Len(plain)]
               /\ LastMaps.container[definition_id] = plain[Len(plain)]
               /\ \E e \in Range(m.settings) :
                      /\ e[2] = Str(containers[plain[Len(plain)]].instances[material_property_setting_map[e[1]]])
                      /\ e[2] /= Str(containers[plain[1]].instances[material_property_setting_map[e[1]]])

\* C15 as claimed: no step changes the metadata or the name of a profile that is
\* read-only, whichever profile the call of the step is made on.
C15_ReadOnlyKeepsMetaData ==
    [][\A x \in DOMAIN containers :
           containers[x].read_only
           => /\ x \in DOMAIN containers'
              /\ containers'[x].metadata = containers[x].metadata
              /\ containers'[x].name = containers[x].name]_vars

====
